---- MODULE Spec2Model ----
(***************************************************************************)
(* Model of src/app.py: a Streamlit inventory form backed by one Google    *)
(* Sheets worksheet (rows) and one Google Drive folder (images).           *)
(*                                                                         *)
(* Text values are sequences of one-character strings so that str.strip()  *)
(* is computed, not assumed.  A run of the script is the submitted handler *)
(* (tab1) followed by the inventory view (tab2); st.stop() ends the run    *)
(* before tab2.  The spreadsheet can also be edited by somebody else.      *)
(***************************************************************************)
EXTENDS Integers, Sequences, FiniteSets, TLC

\* ------------------------------------------------------------------ bounds
MaxRows  == 2      \* data rows the worksheet may hold
MaxFiles == 2      \* files the Drive folder may hold
MaxTime  == 60     \* last second of the clock

\* --------------------------------------------------------- program constants
TTL == 60          \* @st.cache_data(ttl=60)

EXPECTED == <<"id", "timestamp", "cantidad", "descripcion", "observacion",
              "imagen_url", "drive_file_id">>

DISPLAYED == <<"id", "timestamp", "cantidad", "descripcion", "observacion",
               "imagen_url">>

URL_PREFIX == "https://drive.google.com/uc?export=view&id="

\* the three messages of the handler, without their accents
MSG_REQUIRED == "La descripcion es obligatoria."
MSG_SAVED    == "Item guardado correctamente."
MSG_ERROR    == "Ocurrio un error guardando el item"

\* ------------------------------------------------------------ input domains
\* the clock advances in steps of half the ttl
Deltas        == {30}
Cantidades    == {5}
Descripciones == {<<>>, <<" ">>, <<" ", "a", " ">>}
Observaciones == {<<" ", "n">>}
ManualUrls    == {<<>>, <<" ">>, <<" ", "u", " ">>}
Uuids         == {"3f2a91c0"}
FolderSecrets == {<<>>, <<" ">>, <<"F">>}
Failures      == {"none", "create", "permission", "open", "append"}

\* row 1 of a worksheet that exists before the program first opens it:
\* empty, correct, too short, misnamed, and with an eighth cell
PriorHeaders ==
    { <<>>,
      EXPECTED,
      <<"id", "timestamp">>,
      <<"ID", "fecha", "cantidad", "descripcion", "observacion", "imagen_url",
        "drive_file_id">>,
      EXPECTED \o <<"extra">> }

\* what a cantidad cell typed by somebody else may hold; decimals in tenths
\* (27 is 2.7), "text" is a cell that is no number
WellFormedCells == { [k |-> "int", v |-> 3] }

ForeignCells ==
    { [k |-> "int",   v |-> 3],
      [k |-> "int",   v |-> -4],
      [k |-> "dec",   v |-> 27],
      [k |-> "dec",   v |-> -27],
      [k |-> "dec",   v |-> -5],
      [k |-> "empty", v |-> 0],
      [k |-> "text",  v |-> 0] }

VARIABLES
    DRIVE_FOLDER_ID,  \* secrets [drive].folder_id after .strip()
    wsExists,         \* the worksheet WS_NAME exists in the spreadsheet
    header,           \* row 1 of the worksheet, as ws.row_values(1) gives it
    rows,             \* the data rows (row 2 onwards), top to bottom
    driveFiles,       \* files in the Drive folder: [id, public]
    cache,            \* st.cache_data entry of read_inventory_df
    now,              \* clock, seconds
    pc,               \* "form": between runs, "tab2": handler done, view due
    last,             \* the submitted handler of the current run: its outcome
                      \* and the form values it read before it ended
    view,             \* what tab2 rendered in the latest run
    act,              \* kind of the latest step: env, submit, view, refresh
    appended,         \* row dicts whose append_row_to_sheet call returned
    opened            \* open_or_create_worksheet has returned at least once

vars == <<DRIVE_FOLDER_ID, wsExists, header, rows, driveFiles, cache, now, pc,
          last, view, act, appended, opened>>

\* ---------------------------------------------------------------- str.strip
IsSpace(c) == c = " "

RECURSIVE LStrip(_)
LStrip(s) == IF s # <<>> /\ IsSpace(Head(s)) THEN LStrip(Tail(s)) ELSE s

RECURSIVE RStrip(_)
RStrip(s) ==
    IF s # <<>> /\ IsSpace(s[Len(s)]) THEN RStrip(SubSeq(s, 1, Len(s) - 1))
    ELSE s

\* a handler that forgot .strip()
NoStrip(s) == s

Strip(s) == RStrip(LStrip(s))

\* ------------------------------------------------------------ Google Sheets
\* ws.update("A1:G1", [values]): writes the cells A1..G1 and no other cell
UpdateA1G1(hd, values) ==
    [i \in 1..(IF Len(hd) > 7 THEN Len(hd) ELSE 7) |->
        IF i <= 7 THEN values[i] ELSE hd[i]]

open_or_create_worksheet(exists, hd) ==
    LET created == IF exists THEN hd ELSE EXPECTED
        headers == created
    IN  [exists |-> TRUE,
         header |-> IF headers # EXPECTED THEN UpdateA1G1(created, EXPECTED)
                    ELSE created]

\* the cell Sheets stores for the int the program sends
IntCell(n) == [k |-> "int", v |-> n]

\* values of append_row_to_sheet, in column order, as the stored row
RowValues(row) ==
    [id            |-> row.id,
     timestamp     |-> row.timestamp,
     cantidad      |-> IntCell(row.cantidad),
     descripcion   |-> row.descripcion,
     observacion   |-> row.observacion,
     imagen_url    |-> row.imagen_url,
     drive_file_id |-> row.drive_file_id]

\* insert_row(values, 2) instead of append_row
PrependRow(rs, values) == <<values>> \o rs

\* a write to the last used row instead of the one below it
OverwriteLastRow(rs, values) ==
    IF rs = <<>> THEN <<values>> ELSE [rs EXCEPT ![Len(rs)] = values]

\* ws.append_row(values): one new row below the last one
AppendRow(rs, values) == Append(rs, values)

append_row_to_sheet(exists, hd, rs, row) ==
    LET ws == open_or_create_worksheet(exists, hd)
    IN  [exists |-> ws.exists, header |-> ws.header,
         rows |-> AppendRow(rs, RowValues(row))]

\* pd.to_numeric(errors="coerce"): a number stays, anything else is NaN
ToNumeric(cell) ==
    IF cell.k \in {"int", "dec"} THEN cell ELSE [k |-> "nan", v |-> 0]

FillNa0(x) == IF x.k = "nan" THEN [k |-> "int", v |-> 0] ELSE x

\* rounding down instead of toward zero
AsTypeIntFloor(x) ==
    IF x.k = "int" THEN x.v
    ELSE IF x.v >= 0 THEN x.v \div 10 ELSE -((9 - x.v) \div 10)

\* astype(int): truncation toward zero
AsTypeInt(x) ==
    IF x.k = "int" THEN x.v
    ELSE IF x.v >= 0 THEN x.v \div 10 ELSE -((-x.v) \div 10)

CoerceCantidad(cell) == AsTypeInt(FillNa0(ToNumeric(cell)))

HasColumn(cols, name) == \E i \in 1..Len(cols) : cols[i] = name

\* the body of read_inventory_df after the worksheet is open
ReadFrame(hd, rs) ==
    LET data == rs
        cols == IF data = <<>> THEN EXPECTED ELSE hd
    IN  [cols |-> cols,
         rows |-> [i \in 1..Len(data) |->
                     IF HasColumn(cols, "cantidad")
                     THEN [data[i] EXCEPT !.cantidad = CoerceCantidad(@)]
                     ELSE data[i]]]

\* an entry that is still served at the age of exactly ttl
CacheHitInclusive(c, t) == c.valid /\ t - c.time <= TTL

\* read_inventory_df through st.cache_data(ttl=60)
CacheHit(c, t) == c.valid /\ t - c.time < TTL

NoFrame == [cols |-> <<>>, rows |-> <<>>]

ClearedCache == [valid |-> FALSE, time |-> 0, df |-> NoFrame]

\* a handler without the clear
KeepCache(c) == c

\* st.cache_data.clear()
cache_data_clear(c) == ClearedCache

read_inventory_df(c, t, exists, hd, rs) ==
    IF CacheHit(c, t)
    THEN [hit |-> TRUE, df |-> c.df, cache |-> c,
          exists |-> exists, header |-> hd]
    ELSE LET ws == open_or_create_worksheet(exists, hd)
             df == ReadFrame(ws.header, rs)
         IN  [hit |-> FALSE, df |-> df,
              cache |-> [valid |-> TRUE, time |-> t, df |-> df],
              exists |-> ws.exists, header |-> ws.header]

\* ------------------------------------------------------------- Google Drive
PublicUrl(file_id) == <<URL_PREFIX, file_id>>

NewFileId(files) == ToString(Cardinality(files) + 1)

\* an upload that deletes the file again when the permission grant raises
UploadWithRollback(files, folder_id, fail) ==
    LET file_id == NewFileId(files)
    IN  IF folder_id = <<>> \/ fail \in {"create", "permission"}
        THEN [ok |-> FALSE, files |-> files, url |-> <<>>, id |-> <<>>]
        ELSE [ok |-> TRUE,
              files |-> files \cup {[id |-> file_id, public |-> TRUE]},
              url |-> PublicUrl(file_id), id |-> <<file_id>>]

\* result of upload_image_to_drive; fail names the call that raises
upload_image_to_drive(files, folder_id, fail) ==
    LET file_id == NewFileId(files)
    IN  IF folder_id = <<>> \/ fail = "create"
        THEN [ok |-> FALSE, files |-> files, url |-> <<>>, id |-> <<>>]
        ELSE IF fail = "permission"
        THEN [ok |-> FALSE,
              files |-> files \cup {[id |-> file_id, public |-> FALSE]},
              url |-> <<>>, id |-> <<>>]
        ELSE [ok |-> TRUE,
              files |-> files \cup {[id |-> file_id, public |-> TRUE]},
              url |-> PublicUrl(file_id), id |-> <<file_id>>]

\* a handler that looks at the pasted URL first
ResolveImageManualFirst(img_file, folder_id, img_url_manual, up) ==
    IF Strip(img_url_manual) # <<>>
    THEN [imagen_url |-> Strip(img_url_manual), drive_file_id |-> <<>>]
    ELSE IF img_file /\ folder_id # <<>>
    THEN [imagen_url |-> up.url, drive_file_id |-> up.id]
    ELSE [imagen_url |-> <<>>, drive_file_id |-> <<>>]

\* the if / elif / else of the handler: up is the upload's result
ResolveImage(img_file, folder_id, img_url_manual, up) ==
    IF img_file /\ folder_id # <<>>
    THEN [imagen_url |-> up.url, drive_file_id |-> up.id]
    ELSE IF Strip(img_url_manual) # <<>>
    THEN [imagen_url |-> Strip(img_url_manual), drive_file_id |-> <<>>]
    ELSE [imagen_url |-> <<>>, drive_file_id |-> <<>>]

\* ------------------------------------------------------------------- tab 2
NoView == [state |-> "none", df |-> NoFrame, table |-> <<>>,
           csvHeader |-> <<>>, csvRows |-> <<>>]

\* df[[six columns]]
Displayed(r) ==
    [id |-> r.id, timestamp |-> r.timestamp, cantidad |-> r.cantidad,
     descripcion |-> r.descripcion, observacion |-> r.observacion,
     imagen_url |-> r.imagen_url]

\* df[[six columns]].to_csv(index=False)
ToCsvHeaderDisplayed(df) == DISPLAYED

\* df.to_csv(index=False): every column of df
ToCsvHeader(df) == df.cols

ToCsvRows(df) == df.rows

\* st.info for an empty frame, else the table and the download button; the
\* rich st.dataframe and its plain fallback show the same six columns
Render(df) ==
    IF df.rows = <<>>
    THEN [NoView EXCEPT !.state = "empty", !.df = df]
    ELSE [state |-> "table", df |-> df,
          table |-> [i \in 1..Len(df.rows) |-> Displayed(df.rows[i])],
          csvHeader |-> ToCsvHeader(df), csvRows |-> ToCsvRows(df)]

\* `with tab2:` : optional clear, read, render
Tab2(refresh, name) ==
    LET c == IF refresh THEN cache_data_clear(cache) ELSE cache
        r == read_inventory_df(c, now, wsExists, header, rows)
    IN  /\ cache' = r.cache
        /\ wsExists' = r.exists
        /\ header' = r.header
        /\ opened' = (opened \/ ~r.hit)
        /\ view' = Render(r.df)
        /\ act' = name
        /\ pc' = "form"
        /\ UNCHANGED <<DRIVE_FOLDER_ID, rows, driveFiles, now, appended>>

\* ------------------------------------------------------------------- state
NoSubmit ==
    [status |-> "none", message |-> "", descripcion |-> <<>>,
     img_file |-> FALSE, img_url_manual |-> <<>>, raised |-> "none"]

Init ==
    /\ DRIVE_FOLDER_ID \in {Strip(s) : s \in FolderSecrets}
    /\ \/ wsExists = FALSE /\ header = <<>>
       \/ wsExists = TRUE /\ header \in PriorHeaders
    /\ rows = <<>>
    /\ driveFiles = {}
    /\ cache = ClearedCache
    /\ now = 0
    /\ pc = "form"
    /\ last = NoSubmit
    /\ view = NoView
    /\ act = "env"
    /\ appended = <<>>
    /\ opened = FALSE

\* `if submitted:` with the form's values; fail names the API call that raises
Submit(cantidad, descripcion, observacion, img_file, img_url_manual, uuid, fail) ==
    LET uploads == img_file /\ DRIVE_FOLDER_ID # <<>>
        in == [NoSubmit EXCEPT !.descripcion = descripcion,
                               !.img_file = img_file,
                               !.img_url_manual =
                                   IF uploads THEN <<>> ELSE img_url_manual]
        up  == upload_image_to_drive(driveFiles, DRIVE_FOLDER_ID, fail)
        img == ResolveImage(img_file, DRIVE_FOLDER_ID, img_url_manual, up)
        row == [id |-> uuid, timestamp |-> now, cantidad |-> cantidad,
                descripcion |-> Strip(descripcion),
                observacion |-> Strip(observacion),
                imagen_url |-> img.imagen_url,
                drive_file_id |-> img.drive_file_id]
        ws  == open_or_create_worksheet(wsExists, header)
        ap  == append_row_to_sheet(wsExists, header, rows, row)
    IN  /\ pc = "form"
        \* only a call that is made can raise
        /\ fail \in {"create", "permission"} => uploads
        /\ Strip(descripcion) = <<>> => fail = "none"
        /\ Len(rows) < MaxRows
        /\ uploads => Cardinality(driveFiles) < MaxFiles
        /\ act' = "submit"
        /\ view' = NoView
        /\ UNCHANGED <<DRIVE_FOLDER_ID, now>>
        /\ IF Strip(descripcion) = <<>>
           THEN \* st.error; st.stop()
                /\ last' = [NoSubmit EXCEPT !.status = "rejected",
                                            !.message = MSG_REQUIRED,
                                            !.descripcion = descripcion]
                /\ pc' = "form"
                /\ UNCHANGED <<wsExists, header, rows, driveFiles, cache,
                               appended, opened>>
           ELSE /\ pc' = "tab2"
                /\ IF uploads /\ ~up.ok
                   THEN \* upload_image_to_drive raised
                        /\ driveFiles' = up.files
                        /\ last' = [in EXCEPT !.status = "error",
                                              !.message = MSG_ERROR,
                                              !.raised = fail]
                        /\ UNCHANGED <<wsExists, header, rows, cache,
                                       appended, opened>>
                   ELSE /\ driveFiles' = (IF uploads THEN up.files
                                          ELSE driveFiles)
                        /\ IF fail = "open"
                           THEN \* gc.open_by_key / sh.worksheet raised
                                /\ last' = [in EXCEPT !.status = "error",
                                                      !.message = MSG_ERROR,
                                                      !.raised = "open"]
                                /\ UNCHANGED <<wsExists, header, rows, cache,
                                               appended, opened>>
                           ELSE IF fail = "append"
                           THEN \* ws.append_row(values) raised
                                /\ wsExists' = ws.exists
                                /\ header' = ws.header
                                /\ opened' = TRUE
                                /\ last' = [in EXCEPT !.status = "error",
                                                      !.message = MSG_ERROR,
                                                      !.raised = "append"]
                                /\ UNCHANGED <<rows, cache, appended>>
                           ELSE /\ wsExists' = ap.exists
                                /\ header' = ap.header
                                /\ rows' = ap.rows
                                /\ opened' = TRUE
                                /\ appended' = Append(appended, row)
                                /\ last' = [in EXCEPT !.status = "ok",
                                                      !.message = MSG_SAVED]
                                /\ cache' = cache_data_clear(cache)

SubmitForm ==
    \E cantidad \in Cantidades, descripcion \in Descripciones,
       observacion \in Observaciones, img_file \in BOOLEAN,
       img_url_manual \in ManualUrls, uuid \in Uuids, fail \in Failures :
        Submit(cantidad, descripcion, observacion, img_file, img_url_manual,
               uuid, fail)

\* tab2 of the run whose handler just finished (the refresh button is not
\* the widget that triggered this run)
RenderInventory ==
    /\ pc = "tab2"
    /\ last' = NoSubmit
    /\ Tab2(FALSE, "view")

\* a run triggered by the refresh button: submitted is False
RefreshInventory ==
    /\ pc = "form"
    /\ last' = NoSubmit
    /\ Tab2(TRUE, "refresh")

\* a run triggered by anything else (page load, download click)
Rerun ==
    /\ pc = "form"
    /\ last' = NoSubmit
    /\ Tab2(FALSE, "view")

\* somebody else appends a row to the worksheet
ForeignRow(cell) ==
    [id |-> "foreign", timestamp |-> 0, cantidad |-> cell,
     descripcion |-> <<"x">>, observacion |-> <<>>, imagen_url |-> <<>>,
     drive_file_id |-> <<>>]

ForeignAppend(cells) ==
    /\ wsExists
    /\ Len(rows) < MaxRows
    /\ \E cell \in cells : rows' = Append(rows, ForeignRow(cell))
    /\ act' = "env"
    /\ UNCHANGED <<DRIVE_FOLDER_ID, wsExists, header, driveFiles, cache, now,
                   pc, last, view, appended, opened>>

ExternalAppend == ForeignAppend(WellFormedCells)

ExternalEdit == ForeignAppend(ForeignCells)

Tick ==
    /\ \E d \in Deltas : now + d <= MaxTime /\ now' = now + d
    /\ act' = "env"
    /\ UNCHANGED <<DRIVE_FOLDER_ID, wsExists, header, rows, driveFiles, cache,
                   pc, last, view, appended, opened>>

Next ==
    \/ SubmitForm
    \/ RenderInventory
    \/ RefreshInventory
    \/ Rerun
    \/ ExternalAppend
    \/ Tick

Spec == Init /\ [][Next]_vars

\* the worksheet is filled by hand and only viewed by the program
NextForeign ==
    \/ ExternalEdit
    \/ RefreshInventory
    \/ Rerun
    \/ Tick

SpecForeign == Init /\ [][NextForeign]_vars

\* ================================================================== claims
\* text made of whitespace only (the empty text included)
IsBlank(s) == \A i \in 1..Len(s) : s[i] = " "

\* t is s without its leading and trailing whitespace
IsTrimOf(t, s) ==
    \E i \in 0..Len(s), j \in 0..Len(s) :
        /\ i + j <= Len(s)
        /\ IsBlank(SubSeq(s, 1, i))
        /\ IsBlank(SubSeq(s, Len(s) - j + 1, Len(s)))
        /\ t = SubSeq(s, i + 1, Len(s) - j)
        /\ (t = <<>> \/ (t[1] # " " /\ t[Len(t)] # " "))

\* C1: a submission whose description is empty or whitespace only is
\* rejected and changes neither the worksheet nor the Drive folder.
C1_BlankDescriptionRejected ==
    [][(act' = "submit" /\ IsBlank(last'.descripcion)) =>
          /\ last'.status = "rejected"
          /\ rows' = rows
          /\ driveFiles' = driveFiles
          /\ wsExists' = wsExists
          /\ header' = header
          /\ appended' = appended]_vars

C1_Witness ==
    /\ act = "submit"
    /\ last.status = "rejected"
    /\ last.descripcion = <<" ">>
    /\ DRIVE_FOLDER_ID # <<>>
    /\ Len(rows) = 1

\* C2: the image fields of the row an accepted submission appends follow
\* the precedence uploaded file, then trimmed pasted URL, then nothing.
C2_ImagePrecedence ==
    [][(act' = "submit" /\ last'.status = "ok") =>
          LET r == rows'[Len(rows')]
          IN  IF last'.img_file /\ DRIVE_FOLDER_ID # <<>>
              THEN \E f \in driveFiles' \ driveFiles :
                      /\ r.imagen_url = <<URL_PREFIX, f.id>>
                      /\ r.drive_file_id = <<f.id>>
              ELSE IF ~IsBlank(last'.img_url_manual)
              THEN /\ IsTrimOf(r.imagen_url, last'.img_url_manual)
                   /\ r.drive_file_id = <<>>
              ELSE /\ r.imagen_url = <<>>
                   /\ r.drive_file_id = <<>>]_vars

C2_Witness ==
    /\ act = "submit"
    /\ last.status = "ok"
    /\ last.img_file
    /\ Cardinality(driveFiles) = 2
    /\ rows[Len(rows)].drive_file_id = <<"2">>
    /\ rows[Len(rows)].imagen_url = <<URL_PREFIX, "2">>

\* C3: a successful submission leaves the read cache cleared until the
\* view of the same run reads, and that read contains the appended row.
C3_AppendThenFreshRead ==
    [][/\ (pc' = "tab2" /\ last'.status = "ok") => ~cache'.valid
       /\ (pc = "tab2" /\ last.status = "ok" /\ act' = "view") =>
             \E i \in 1..Len(view'.df.rows) :
                 view'.df.rows[i] = appended[Len(appended)]]_vars

C3_Witness ==
    /\ act = "view"
    /\ Len(appended) = 1
    /\ Len(rows) = 2
    /\ appended[1].timestamp = now
    /\ cache.valid /\ cache.time = now
    /\ Len(view.df.rows) = 2
    /\ view.df.rows[2] = appended[1]

C5_AppendOnly ==
    [][/\ Len(rows') >= Len(rows)
       /\ \A i \in 1..Len(rows) : rows'[i] = rows[i]
       /\ (act' = "submit" /\ last'.status = "ok") =>
             /\ Len(rows') = Len(rows) + 1
             /\ Len(appended') = Len(appended) + 1
             /\ rows'[Len(rows')].descripcion =
                    appended'[Len(appended')].descripcion
       /\ (act' = "submit" /\ last'.status # "ok") => rows' = rows
       /\ act' \in {"view", "refresh"} => rows' = rows]_vars

C5_Witness ==
    /\ act = "submit"
    /\ last.status = "ok"
    /\ Len(rows) = 2
    /\ rows[1].id = "foreign"
    /\ header = EXPECTED

\* C6: once open_or_create_worksheet has returned, row 1 of the worksheet
\* is exactly the seven column names.
C6_HeaderIsSchema == opened => header = EXPECTED

\* C7 as stated: every cantidad a read returns is non-negative, and 0 for
\* a cell that is no number.
C7_NonNegative ==
    \A i \in 1..Len(view.df.rows) :
        /\ view.df.rows[i].cantidad >= 0
        /\ rows[i].cantidad.k \in {"empty", "text"} =>
               view.df.rows[i].cantidad = 0

\* C7 amended: every cantidad a read returns is an integer: the stored
\* number with its fraction cut off (toward zero), 0 for a cell that is
\* empty or no number; it is non-negative when the stored number is.
C7_IntegerTowardZero ==
    \A i \in 1..Len(view.df.rows) :
        LET c == rows[i].cantidad
            n == view.df.rows[i].cantidad
        IN  /\ n \in Int
            /\ c.k \in {"empty", "text"} => n = 0
            /\ c.k = "int" => n = c.v
            /\ (c.k = "dec" /\ c.v >= 0) => (10 * n <= c.v /\ c.v < 10 * n + 10)
            /\ (c.k = "dec" /\ c.v < 0) => (10 * n - 10 < c.v /\ c.v <= 10 * n)
            /\ (c.k \in {"int", "dec"} /\ c.v >= 0) => n >= 0

C7_Witness ==
    /\ act = "view"
    /\ Len(view.df.rows) = 2
    /\ rows[1].cantidad = [k |-> "dec", v |-> -27]
    /\ view.df.rows[1].cantidad = -2
    /\ rows[2].cantidad.k = "text"
    /\ view.df.rows[2].cantidad = 0

\* C8: a view that is not a refresh returns the cached snapshot while it
\* is less than 60 seconds old and was not cleared; any other read fetches
\* the worksheet's current rows and becomes the new snapshot.
C8_CacheContract ==
    [][act' \in {"view", "refresh"} =>
          IF act' = "view" /\ cache.valid /\ now - cache.time < 60
          THEN /\ view'.df = cache.df
               /\ cache' = cache
          ELSE /\ Len(view'.df.rows) = Len(rows)
               /\ \A i \in 1..Len(rows) :
                     /\ view'.df.rows[i].id = rows[i].id
                     /\ view'.df.rows[i].timestamp = rows[i].timestamp
                     /\ view'.df.rows[i].imagen_url = rows[i].imagen_url
               /\ cache' = [valid |-> TRUE, time |-> now, df |-> view'.df]]_vars

C8_Witness ==
    /\ act = "view"
    /\ cache.valid
    /\ now - cache.time = 30
    /\ view.df = cache.df
    /\ Len(view.df.rows) = 1
    /\ Len(rows) = 2
    /\ rows[2].id = "foreign"

\* C9 as stated: the CSV holds the rows of the table shown and exactly the
\* six displayed columns as its header.
C9_CsvDisplayedColumns ==
    view.state = "table" =>
        /\ Len(view.csvRows) = Len(view.table)
        /\ view.csvHeader = DISPLAYED

\* C9 amended: the CSV holds the rows of the table shown, and its header is
\* every column of the frame that was read: the six displayed columns and
\* then drive_file_id.
C9_CsvAllColumns ==
    view.state = "table" =>
        /\ Len(view.csvRows) = Len(view.table)
        /\ \A i \in 1..Len(view.table) :
              /\ view.csvRows[i].id = view.table[i].id
              /\ view.csvRows[i].timestamp = view.table[i].timestamp
              /\ view.csvRows[i].cantidad = view.table[i].cantidad
              /\ view.csvRows[i].descripcion = view.table[i].descripcion
              /\ view.csvRows[i].observacion = view.table[i].observacion
              /\ view.csvRows[i].imagen_url = view.table[i].imagen_url
        /\ Len(view.csvHeader) >= 7
        /\ \A i \in 1..6 : view.csvHeader[i] = DISPLAYED[i]
        /\ view.csvHeader[7] = "drive_file_id"

C9_Witness ==
    /\ view.state = "table"
    /\ Len(view.table) = 2
    /\ view.csvHeader = EXPECTED
    /\ view.csvRows[2].drive_file_id = <<"1">>

\* C10: a submission that raises appends no row, keeps the read cache,
\* reports the error and goes on to the view; what the upload had created
\* before the exception stays in the Drive folder.
C10_ExceptionAborts ==
    [][(act' = "submit" /\ last'.status = "error") =>
          LET uploaded == last'.img_file /\ DRIVE_FOLDER_ID # <<>>
              new == driveFiles' \ driveFiles
          IN  /\ rows' = rows
              /\ appended' = appended
              /\ cache' = cache
              /\ last'.message = MSG_ERROR
              /\ pc' = "tab2"
              /\ driveFiles \subseteq driveFiles'
              /\ last'.raised = "create" => new = {}
              /\ last'.raised = "permission" =>
                    (Cardinality(new) = 1 /\ \A f \in new : ~f.public)
              /\ (last'.raised \in {"open", "append"} /\ uploaded) =>
                    (Cardinality(new) = 1 /\ \A f \in new : f.public)
              /\ (last'.raised \in {"open", "append"} /\ ~uploaded) =>
                    new = {}]_vars

C10_Witness ==
    /\ act = "submit"
    /\ last.status = "error"
    /\ last.raised = "append"
    /\ last.img_file
    /\ cache.valid
    /\ driveFiles = {[id |-> "1", public |-> TRUE]}
    /\ \A i \in 1..Len(rows) : rows[i].drive_file_id = <<>>

====
